---- MODULE Spec2Model ----
(***************************************************************************)
(* Model of spotify-demand-forecast's data generation scripts:             *)
(*   src/src/data_generation/generate_data.py  (load, simulate, save)      *)
(*   src/src/data_generation/upload_to_s3.py   (validate, upload, verify)  *)
(*                                                                         *)
(* Numbers.  Configured real parameters are held in tenths (1.5 -> 15).    *)
(* np.random.random() returns k/Grid for k in 0..Grid-1, so a uniform      *)
(* draw is a rational with denominator Den = 10 * Grid.  A running stream  *)
(* estimate is an exact fraction <<num, den>>; int() truncates it toward   *)
(* zero.  Dates are <<year, month, day>>, converted to and from proleptic  *)
(* Gregorian ordinals the way datetime does.                               *)
(***************************************************************************)
EXTENDS Integers, Sequences, FiniteSets, TLC

(* ------------------------------ bounds --------------------------------- *)
MaxDays == 2
MaxCatalog == 3
MaxRegions == 2
MaxSeed == 15
Grid == 4

Den == 10 * Grid

(* ------------------------- calendar (datetime) ------------------------- *)
IsLeap(y) == (y % 4 = 0) /\ ((y % 100 # 0) \/ (y % 400 = 0))

DaysInMonth(y, m) ==
    IF m = 2 THEN (IF IsLeap(y) THEN 29 ELSE 28)
    ELSE IF m \in {4, 6, 9, 11} THEN 30 ELSE 31

DaysBeforeYear(y) ==
    (y - 1) * 365 + ((y - 1) \div 4) - ((y - 1) \div 100) + ((y - 1) \div 400)

RECURSIVE DaysBeforeMonth(_, _)
DaysBeforeMonth(y, m) ==
    IF m = 1 THEN 0 ELSE DaysBeforeMonth(y, m - 1) + DaysInMonth(y, m - 1)

\* date.toordinal(): 0001-01-01 is day 1
ToOrdinal(date) == DaysBeforeYear(date[1]) + DaysBeforeMonth(date[1], date[2]) + date[3]

YearLen(y) == IF IsLeap(y) THEN 366 ELSE 365

RECURSIVE MonthDayFrom(_, _, _)
MonthDayFrom(y, m, n) ==
    IF n <= DaysInMonth(y, m) THEN <<y, m, n>>
    ELSE MonthDayFrom(y, m + 1, n - DaysInMonth(y, m))

RECURSIVE YearFrom(_, _)
YearFrom(y, n) ==
    IF n <= 0 THEN YearFrom(y - 1, n + YearLen(y - 1))
    ELSE IF n > YearLen(y) THEN YearFrom(y + 1, n - YearLen(y))
    ELSE MonthDayFrom(y, 1, n)

\* date.fromordinal()
FromOrdinal(n) ==
    LET y0 == 1 + ((n - 1) \div 366)
    IN  YearFrom(y0, n - DaysBeforeYear(y0))

\* datetime.strptime(s, "%Y-%m-%d") accepts exactly the real calendar days
ValidDate(s) ==
    /\ s[1] \in 1..9999
    /\ s[2] \in 1..12
    /\ s[3] \in 1..DaysInMonth(s[1], s[2])

\* start + timedelta(days=k)
AddDays(date, k) == FromOrdinal(ToOrdinal(date) + k)

\* date.weekday(): Monday is 0, Sunday is 6
Weekday(date) == (ToOrdinal(date) + 6) % 7

is_weekend(date) == Weekday(date) \in {4, 5}

is_summer_month(date) == date[2] \in {6, 7, 8}

(* ------------------------ exact fractions, int() ----------------------- *)
Mul(x, y) == <<x[1] * y[1], x[2] * y[2]>>

\* int(x): truncation toward zero
Trunc(x) ==
    IF x[1] >= 0 THEN x[1] \div x[2] ELSE 0 - ((0 - x[1]) \div x[2])

(* --------------------- the process-wide generator ---------------------- *)
\* one step of the generator: the new state and random()'s result k (k/Grid)
Rand(s) ==
    LET t == (s * 421 + 11) % 1024
    IN  [state |-> t, out |-> (t * Grid) \div 1024]

\* np.random.uniform(low, high) from random()'s result k:
\* low + (high - low) * k/Grid, as a numerator over Den
Uniform(low, high, k) == Grid * low + (high - low) * k

(* ------------------------------- state --------------------------------- *)
VARIABLES
    pc,                 \* generate_data.main's position
    cfg,                \* the config module's values read by generate_data.py
    seed,               \* the generator's state when the process starts
    rng,                \* state of np.random's process-wide generator
    file_read,          \* the catalog file as load_spotify_dataset found it
    tracks_df,          \* main's tracks_df: [columns, rows]
    start,              \* generate_streaming_data's parsed start date
    current_date,
    day_offset,
    ti,                 \* position of the iterrows() loop (1-based)
    ri,                 \* position of the regions loop (1-based)
    streaming_records,
    drawLog,            \* the draws the latest triple took, in order
    streaming_df,       \* what generate_streaming_data returned
    output_file,        \* the file at OUTPUT_PATH: [written, rows]
    error,              \* the exception main raised, [type |-> "none"] if none
    stages,             \* the stages main has entered, in order
    run,                \* 1 for the first run of the pipeline, 2 for a repeat
    first_run,          \* the repeat's record of the first run
    upc,                \* upload_to_s3.main's position
    ucfg,               \* the config values upload_to_s3.py reads
    world,              \* the local file and the remote store, as the upload meets them
    calls,              \* the steps upload_to_s3.main has attempted, in order
    exit_status,        \* upload_to_s3's exit status, -1 while running
    handler             \* the except clause of upload_to_s3.main that ran

vars == <<pc, cfg, seed, rng, file_read, tracks_df, start, current_date, day_offset, ti, ri,
          streaming_records, drawLog, streaming_df, output_file, error, stages,
          run, first_run, upc, ucfg, world, calls, exit_status, handler>>

genVars == <<pc, cfg, seed, rng, file_read, tracks_df, start, current_date, day_offset, ti, ri,
             streaming_records, drawLog, streaming_df, output_file, error, stages>>

runVars == <<run, first_run>>

upVars == <<upc, ucfg, world, calls, exit_status, handler>>

(* ------------------------------- inputs -------------------------------- *)
required_columns == <<"track_id", "track_name", "artists", "popularity">>

RequiredSet == {required_columns[i] : i \in 1..Len(required_columns)}

Popularities == <<50, 0, 93, 7>>

\* row i of the catalog file
CatalogRow(i) ==
    [track_id |-> i, track_name |-> <<"name", i>>, artists |-> <<"artist", i>>,
     popularity |-> Popularities[((i - 1) % Len(Popularities)) + 1]]

CatalogRows(n) == [i \in 1..n |-> CatalogRow(i)]

\* what may be found at SPOTIFY_DATASET_PATH: no file, a file read_csv cannot
\* parse, or a table with some columns and rows
CatalogFiles ==
    {[exists |-> FALSE, parses |-> FALSE, columns |-> {}, rows |-> <<>>],
     [exists |-> TRUE, parses |-> FALSE, columns |-> {}, rows |-> <<>>]}
    \cup {[exists |-> TRUE, parses |-> TRUE, columns |-> c,
           rows |-> CatalogRows(1)] :
            c \in (SUBSET RequiredSet) \ {RequiredSet}}
    \cup {[exists |-> TRUE, parses |-> TRUE, columns |-> RequiredSet,
           rows |-> CatalogRows(n)] : n \in 0..MaxCatalog}
    \cup {[exists |-> TRUE, parses |-> TRUE,
           columns |-> RequiredSet \cup {"album_name"}, rows |-> CatalogRows(1)]}

RegionNames == <<"US", "UK", "DE", "FR", "ES">>

RegionLists == {SubSeq(RegionNames, 1, n) : n \in 0..MaxRegions}

\* 2024-05-31 is a Friday, 2024-08-31 a Saturday, 2024-06-30 a Sunday;
\* 2024-02-30 is no day, so strptime rejects it
StartDates == {<<2024, 5, 31>>, <<2024, 8, 31>>, <<2024, 6, 30>>, <<2024, 2, 30>>}

\* the layered model's parameters, reals in tenths
Layers(bmin, bmax, wmin, wmax, p, vmin, vmax, summer, divisor) ==
    [BASE_STREAM_MULTIPLIER_MIN |-> bmin, BASE_STREAM_MULTIPLIER_MAX |-> bmax,
     WEEKEND_BOOST_MIN |-> wmin, WEEKEND_BOOST_MAX |-> wmax,
     VIRAL_SPIKE_PROBABILITY |-> p,
     VIRAL_SPIKE_MULTIPLIER_MIN |-> vmin, VIRAL_SPIKE_MULTIPLIER_MAX |-> vmax,
     SUMMER_BOOST |-> summer, PLAYLIST_ADDS_DIVISOR |-> divisor]

LayerProfiles ==
    { Layers(10, 20, 1, 3, 3, 20, 30, 2, 10),    \* every layer randomized
      Layers(15, 15, 2, 2, 0, 20, 20, 2, 10),    \* randomness off, no spikes
      Layers(10, 20, 0, 0, 10, 10, 10, 2, 10),   \* weekend and viral factors 1
      Layers(20, 10, 3, 1, 3, 30, 20, 2, 10),    \* every range with min > max
      Layers(10, 20, 1, 3, 3, 20, 30, 2, 0) }    \* a zero divisor

RangesValid(c) ==
    /\ c.layers.BASE_STREAM_MULTIPLIER_MIN <= c.layers.BASE_STREAM_MULTIPLIER_MAX
    /\ c.layers.WEEKEND_BOOST_MIN <= c.layers.WEEKEND_BOOST_MAX
    /\ c.layers.VIRAL_SPIKE_MULTIPLIER_MIN <= c.layers.VIRAL_SPIKE_MULTIPLIER_MAX

Configs ==
    [SAMPLE_TRACKS : {2}, NUM_DAYS : (0 - 1)..MaxDays, START_DATE : StartDates,
     REGIONS : RegionLists, layers : LayerProfiles]

Seeds == 0..MaxSeed

NoError == [type |-> "none"]

NoFrame == [columns |-> {}, rows |-> <<>>]

NoFile == [exists |-> FALSE, parses |-> FALSE, columns |-> {}, rows |-> <<>>]

Absent == [written |-> FALSE, rows |-> <<>>]

NoDate == <<0, 0, 0>>

NoRun == [file |-> NoFile, seed |-> 0, pc |-> "none", error |-> NoError,
          returned |-> FALSE, streaming_df |-> NoFrame, output_file |-> Absent]

(* ------------------------ load_spotify_dataset ------------------------- *)
\* the missing-column check stopping at the first column it misses
MissingColumns_FirstOnly(columns) ==
    LET all == SelectSeq(required_columns, LAMBDA col : col \notin columns)
    IN  IF all = <<>> THEN <<>> ELSE <<all[1]>>

\* [col for col in required_columns if col not in df.columns]
MissingColumns(columns) ==
    SelectSeq(required_columns, LAMBDA col : col \notin columns)

\* the outcome of load_spotify_dataset on a file: the frame, or the exception
\* (pd.read_csv's on a missing or unparseable file, the ValueError raised here)
load_spotify_dataset(file) ==
    IF ~file.exists
    THEN [ok |-> FALSE, df |-> NoFrame,
          error |-> [type |-> "FileNotFoundError", stage |-> "load"]]
    ELSE IF ~file.parses
    THEN [ok |-> FALSE, df |-> NoFrame,
          error |-> [type |-> "ParserError", stage |-> "load"]]
    ELSE IF MissingColumns(file.columns) # <<>>
    THEN [ok |-> FALSE, df |-> NoFrame,
          error |-> [type |-> "ValueError", stage |-> "load",
                     missing |-> MissingColumns(file.columns)]]
    ELSE [ok |-> TRUE, df |-> [columns |-> file.columns, rows |-> file.rows],
          error |-> NoError]

(* ------------------- tracks_df.sample(random_state=42) ----------------- *)
\* the fixed-seed shuffle's sort key of row i
SampleKey(i) == (i * 42 + 7) % 11

RECURSIVE SampleOrder(_)
\* the indices of S in the shuffle's order
SampleOrder(S) ==
    IF S = {} THEN <<>>
    ELSE LET i == CHOOSE x \in S : \A y \in S : SampleKey(x) <= SampleKey(y)
         IN  <<i>> \o SampleOrder(S \ {i})

\* n rows drawn without replacement, the same for the same frame and n
Sample(df, n) ==
    LET order == SampleOrder(1..Len(df.rows))
    IN  [columns |-> df.columns, rows |-> [k \in 1..n |-> df.rows[order[k]]]]

(* -------------------------- calculate_streams -------------------------- *)
\* WeekendLayer with the draw taken before the weekend test, on every day
WeekendLayer_DrawFirst(date, streams, g, layers) ==
    LET d == Rand(g)
        u == Uniform(layers.WEEKEND_BOOST_MIN, layers.WEEKEND_BOOST_MAX, d.out)
    IN  [streams |-> IF is_weekend(date) THEN Mul(streams, <<Den + u, Den>>)
                     ELSE streams,
         rng |-> d.state,
         log |-> << [kind |-> "weekend", k |-> d.out] >>]

\* the weekend layer: one draw when the date is a weekend day
WeekendLayer(date, streams, g, layers) ==
    IF is_weekend(date)
    THEN LET d == Rand(g)
             u == Uniform(layers.WEEKEND_BOOST_MIN, layers.WEEKEND_BOOST_MAX, d.out)
         IN  [streams |-> Mul(streams, <<Den + u, Den>>), rng |-> d.state,
              log |-> << [kind |-> "weekend", k |-> d.out] >>]
    ELSE [streams |-> streams, rng |-> g, log |-> <<>>]

\* np.random.random() < VIRAL_SPIKE_PROBABILITY, with random() = k/Grid
SpikeFires(k, layers) == k * 10 < layers.VIRAL_SPIKE_PROBABILITY * Grid

\* the viral layer: the probability draw, then the multiplier draw on a spike
ViralLayer(streams, g, layers) ==
    LET d == Rand(g)
        e == Rand(d.state)
        u == Uniform(layers.VIRAL_SPIKE_MULTIPLIER_MIN,
                     layers.VIRAL_SPIKE_MULTIPLIER_MAX, e.out)
    IN  IF SpikeFires(d.out, layers)
        THEN [streams |-> Mul(streams, <<u, Den>>), rng |-> e.state,
              log |-> << [kind |-> "viral_probability", k |-> d.out],
                         [kind |-> "viral_multiplier", k |-> e.out] >>]
        ELSE [streams |-> streams, rng |-> d.state,
              log |-> << [kind |-> "viral_probability", k |-> d.out] >>]

\* SummerLayer with the boost alone as the factor (streams * SUMMER_BOOST)
SummerLayer_BoostOnly(date, streams, layers) ==
    IF is_summer_month(date)
    THEN Mul(streams, <<layers.SUMMER_BOOST, 10>>)
    ELSE streams

\* the summer layer: a fixed factor, no draw
SummerLayer(date, streams, layers) ==
    IF is_summer_month(date)
    THEN Mul(streams, <<10 + layers.SUMMER_BOOST, 10>>)
    ELSE streams

calculate_streams(popularity, date, base_streams, g, layers) ==
    LET w == WeekendLayer(date, base_streams, g, layers)
        v == ViralLayer(w.streams, w.rng, layers)
        s == SummerLayer(date, v.streams, layers)
    IN  [streams |-> Trunc(s), rng |-> v.rng, log |-> w.log \o v.log]

(* ----------------------- calculate_playlist_adds ----------------------- *)
\* calculate_playlist_adds with the variance drawn as an offset, U(-0.2, 0.2)
calculate_playlist_adds_Offset(streams, g, layers) ==
    IF layers.PLAYLIST_ADDS_DIVISOR = 0
    THEN [ok |-> FALSE, adds |-> 0, rng |-> g, log |-> <<>>]
    ELSE LET d == Rand(g)
             variance == Uniform(0 - 2, 2, d.out)
         IN  [ok |-> TRUE,
              adds |-> Trunc(<<streams * variance,
                               layers.PLAYLIST_ADDS_DIVISOR * Den>>),
              rng |-> d.state,
              log |-> << [kind |-> "variance", k |-> d.out] >>]

\* streams / PLAYLIST_ADDS_DIVISOR raises before the variance draw is taken
calculate_playlist_adds(streams, g, layers) ==
    IF layers.PLAYLIST_ADDS_DIVISOR = 0
    THEN [ok |-> FALSE, adds |-> 0, rng |-> g, log |-> <<>>]
    ELSE LET d == Rand(g)
             variance == Uniform(8, 12, d.out)
         IN  [ok |-> TRUE,
              adds |-> Trunc(<<streams * variance,
                               layers.PLAYLIST_ADDS_DIVISOR * Den>>),
              rng |-> d.state,
              log |-> << [kind |-> "variance", k |-> d.out] >>]

(* ------------------- one (day, track, region) triple ------------------- *)
\* the body of generate_streaming_data's innermost loop
Triple(date, track, region, g, layers) ==
    LET d  == Rand(g)
        base == <<track.popularity
                    * Uniform(layers.BASE_STREAM_MULTIPLIER_MIN,
                              layers.BASE_STREAM_MULTIPLIER_MAX, d.out), Den>>
        cs == calculate_streams(track.popularity, date, base, d.state, layers)
        pa == calculate_playlist_adds(cs.streams, cs.rng, layers)
    IN  [ok |-> pa.ok,
         rng |-> pa.rng,
         log |-> << [kind |-> "base", k |-> d.out] >> \o cs.log \o pa.log,
         record |-> [date |-> date, track_id |-> track.track_id,
                     track_name |-> track.track_name, artists |-> track.artists,
                     streams |-> cs.streams, region |-> region,
                     playlist_adds |-> pa.adds, popularity |-> track.popularity]]

RecordColumns ==
    {"date", "track_id", "track_name", "artists", "streams", "region",
     "playlist_adds", "popularity"}

\* pd.DataFrame(list of dicts): the columns are the dicts' keys, none if empty
DataFrame(records) ==
    [columns |-> IF records = <<>> THEN {} ELSE RecordColumns, rows |-> records]

(* --------------------------- generate_data.main ------------------------ *)
\* main's handler with the exception logged and not raised again
Raise_Swallowed(e) ==
    /\ error' = NoError
    /\ pc' = "done"

\* except Exception as e: logger.error(...); raise
Raise(e) ==
    /\ error' = e
    /\ pc' = "failed"

\* tracks_df = load_spotify_dataset(config.SPOTIFY_DATASET_PATH)
Load ==
    /\ pc = "load"
    /\ \E file \in (IF run = 1 THEN CatalogFiles ELSE {first_run.file}) :
         LET r == load_spotify_dataset(file)
         IN  /\ file_read' = file
             /\ tracks_df' = r.df
             /\ IF r.ok THEN pc' = "sample" /\ UNCHANGED error
                ELSE Raise(r.error)
    /\ stages' = Append(stages, "load")
    /\ UNCHANGED <<cfg, seed, rng, start, current_date, day_offset, ti, ri,
                   streaming_records, drawLog, streaming_df, output_file>>
    /\ UNCHANGED <<runVars, upVars>>

\* if len(tracks_df) > config.SAMPLE_TRACKS: tracks_df = tracks_df.sample(...)
SampleTracks ==
    /\ pc = "sample"
    /\ tracks_df' = IF Len(tracks_df.rows) > cfg.SAMPLE_TRACKS
                    THEN Sample(tracks_df, cfg.SAMPLE_TRACKS)
                    ELSE tracks_df
    /\ pc' = "generate"
    /\ UNCHANGED <<cfg, seed, rng, file_read, start, current_date, day_offset, ti,
                   ri, streaming_records, drawLog, streaming_df, output_file,
                   error, stages>>
    /\ UNCHANGED <<runVars, upVars>>

\* generate_streaming_data up to its first loop: streaming_records = [],
\* start = datetime.strptime(start_date, "%Y-%m-%d")
GenerateStart ==
    /\ pc = "generate"
    /\ stages' = Append(stages, "simulate")
    /\ streaming_records' = <<>>
    /\ IF ValidDate(cfg.START_DATE)
       THEN /\ start' = cfg.START_DATE
            /\ day_offset' = 0
            /\ pc' = "for_day"
            /\ UNCHANGED error
       ELSE /\ Raise([type |-> "ValueError", stage |-> "simulate"])
            /\ UNCHANGED <<start, day_offset>>
    /\ UNCHANGED <<cfg, seed, rng, file_read, tracks_df, current_date, ti, ri,
                   drawLog, streaming_df, output_file>>
    /\ UNCHANGED <<runVars, upVars>>

\* ForDay with the range's end included (day_offset <= num_days)
ForDay_EndIncluded ==
    /\ pc = "for_day"
    /\ IF day_offset <= cfg.NUM_DAYS
       THEN /\ current_date' = AddDays(start, day_offset)
            /\ ti' = 1
            /\ pc' = "for_track"
       ELSE /\ pc' = "return"
            /\ UNCHANGED <<current_date, ti>>
    /\ UNCHANGED <<cfg, seed, rng, file_read, tracks_df, start, day_offset, ri,
                   streaming_records, drawLog, streaming_df, output_file, error,
                   stages>>
    /\ UNCHANGED <<runVars, upVars>>

\* for day_offset in range(num_days): current_date = start + timedelta(...)
ForDay ==
    /\ pc = "for_day"
    /\ IF day_offset < cfg.NUM_DAYS
       THEN /\ current_date' = AddDays(start, day_offset)
            /\ ti' = 1
            /\ pc' = "for_track"
       ELSE /\ pc' = "return"
            /\ UNCHANGED <<current_date, ti>>
    /\ UNCHANGED <<cfg, seed, rng, file_read, tracks_df, start, day_offset, ri,
                   streaming_records, drawLog, streaming_df, output_file, error,
                   stages>>
    /\ UNCHANGED <<runVars, upVars>>

\* for _, track in tracks_df.iterrows():
ForTrack ==
    /\ pc = "for_track"
    /\ IF ti <= Len(tracks_df.rows)
       THEN /\ ri' = 1
            /\ pc' = "for_region"
            /\ UNCHANGED day_offset
       ELSE /\ day_offset' = day_offset + 1
            /\ pc' = "for_day"
            /\ UNCHANGED ri
    /\ UNCHANGED <<cfg, seed, rng, file_read, tracks_df, start, current_date, ti,
                   streaming_records, drawLog, streaming_df, output_file, error,
                   stages>>
    /\ UNCHANGED <<runVars, upVars>>

\* for region in regions: the triple's draws, its record, the append
ForRegion ==
    /\ pc = "for_region"
    /\ IF ri <= Len(cfg.REGIONS)
       THEN LET t == Triple(current_date, tracks_df.rows[ti], cfg.REGIONS[ri],
                            rng, cfg.layers)
            IN  /\ rng' = t.rng
                /\ drawLog' = t.log
                /\ IF t.ok
                   THEN /\ streaming_records' = Append(streaming_records, t.record)
                        /\ ri' = ri + 1
                        /\ UNCHANGED <<pc, error>>
                   ELSE /\ Raise([type |-> "ZeroDivisionError", stage |-> "simulate"])
                        /\ UNCHANGED <<streaming_records, ri>>
                /\ UNCHANGED ti
       ELSE /\ ti' = ti + 1
            /\ pc' = "for_track"
            /\ UNCHANGED <<rng, drawLog, streaming_records, ri, error>>
    /\ UNCHANGED <<cfg, seed, file_read, tracks_df, start, current_date,
                   day_offset, streaming_df, output_file, stages>>
    /\ UNCHANGED <<runVars, upVars>>

\* return pd.DataFrame(streaming_records)
GenerateReturn ==
    /\ pc = "return"
    /\ streaming_df' = DataFrame(streaming_records)
    /\ pc' = "save"
    /\ UNCHANGED <<cfg, seed, rng, file_read, tracks_df, start, current_date,
                   day_offset, ti, ri, streaming_records, drawLog, output_file,
                   error, stages>>
    /\ UNCHANGED <<runVars, upVars>>

\* to_csv opening the file to append (mode='a')
to_csv_Append(file, df) == [written |-> TRUE, rows |-> file.rows \o df.rows]

\* df.to_csv(output_path, index=False): the file is replaced by the frame
to_csv(file, df) == [written |-> TRUE, rows |-> df.rows]

\* save_streaming_data: mkdir and to_csv, then the summary's df['date'], ...
\* `writable` is whether the file system takes the write
save_streaming_data(writable) ==
    IF ~writable
    THEN [written |-> FALSE, error |-> "OSError"]
    ELSE IF "date" \notin streaming_df.columns
    THEN [written |-> TRUE, error |-> "KeyError"]
    ELSE [written |-> TRUE, error |-> "none"]

Save ==
    /\ pc = "save"
    /\ stages' = Append(stages, "save")
    /\ \E writable \in BOOLEAN :
         LET r == save_streaming_data(writable)
         IN  /\ output_file' = IF r.written THEN to_csv(output_file, streaming_df)
                               ELSE output_file
             /\ IF r.error = "none"
                THEN pc' = "done" /\ UNCHANGED error
                ELSE Raise([type |-> r.error, stage |-> "save"])
    /\ UNCHANGED <<cfg, seed, rng, file_read, tracks_df, start, current_date,
                   day_offset, ti, ri, streaming_records, drawLog, streaming_df>>
    /\ UNCHANGED <<runVars, upVars>>

UploadIdle ==
    /\ upc = "idle"
    /\ ucfg = [key |-> TRUE, secret |-> TRUE, bucket |-> TRUE]
    /\ world = [client |-> "ok", bucket |-> "ok", file |-> TRUE, upload |-> "ok",
                verify |-> "ok"]
    /\ calls = <<>>
    /\ exit_status = 0 - 1
    /\ handler = "none"

GenInit ==
    /\ pc = "load"
    /\ cfg \in Configs
    /\ seed \in Seeds
    /\ rng = seed
    /\ file_read = NoFile
    /\ tracks_df = NoFrame
    /\ start = NoDate
    /\ current_date = NoDate
    /\ day_offset = 0
    /\ ti = 0
    /\ ri = 0
    /\ streaming_records = <<>>
    /\ drawLog = <<>>
    /\ streaming_df = NoFrame
    /\ output_file = Absent
    /\ error = NoError
    /\ stages = <<>>

Init ==
    /\ GenInit
    /\ run = 1
    /\ first_run = NoRun
    /\ UploadIdle

Next ==
    \/ Load
    \/ SampleTracks
    \/ GenerateStart
    \/ ForDay
    \/ ForTrack
    \/ ForRegion
    \/ GenerateReturn
    \/ Save

Spec == Init /\ [][Next]_vars

(* ------------------------ a repeat of the pipeline --------------------- *)
GenDone == pc \in {"done", "failed"}

GenReturned == pc \in {"save", "done"} \/ (pc = "failed" /\ error.stage = "save")

\* the pipeline is started again in a new process, on the same catalog file
\* and configuration; the file at OUTPUT_PATH stays; the new process's
\* generator starts from the same seed or from another one
Rerun ==
    /\ run = 1
    /\ GenDone
    /\ first_run' = [file |-> file_read, seed |-> seed, pc |-> pc,
                     error |-> error, returned |-> GenReturned,
                     streaming_df |-> streaming_df, output_file |-> output_file]
    /\ run' = 2
    /\ seed' \in {seed, (seed + 1) % (MaxSeed + 1)}
    /\ rng' = seed'
    /\ pc' = "load"
    /\ file_read' = NoFile
    /\ tracks_df' = NoFrame
    /\ start' = NoDate
    /\ current_date' = NoDate
    /\ day_offset' = 0
    /\ ti' = 0
    /\ ri' = 0
    /\ streaming_records' = <<>>
    /\ drawLog' = <<>>
    /\ streaming_df' = NoFrame
    /\ error' = NoError
    /\ stages' = <<>>
    /\ UNCHANGED <<cfg, output_file>>
    /\ UNCHANGED upVars

RepeatNext == Next \/ Rerun

SpecRepeat == Init /\ [][RepeatNext]_vars

(* --------------------------- upload_to_s3.py --------------------------- *)
\* validate_credentials: the three placeholder tests, in order
validate_credentials(c) ==
    IF ~c.key THEN "ValueError"
    ELSE IF ~c.secret THEN "ValueError"
    ELSE IF ~c.bucket THEN "ValueError"
    ELSE "none"

\* create_s3_client: boto3.client's exception is logged and raised again
create_s3_client(w) == IF w.client = "ok" THEN "none" ELSE w.client

\* verify_bucket_exists with a 404 logged and not raised
verify_bucket_exists_LogOnly(w) ==
    IF w.bucket \in {"ok", "404"} THEN "none"
    ELSE IF w.bucket = "403" THEN "ValueError"
    ELSE IF w.bucket = "500" THEN "ClientError"
    ELSE w.bucket

\* verify_bucket_exists: head_bucket; a 404 or 403 ClientError becomes a
\* ValueError, another ClientError is raised again, anything else passes up
verify_bucket_exists(w) ==
    IF w.bucket = "ok" THEN "none"
    ELSE IF w.bucket \in {"404", "403"} THEN "ValueError"
    ELSE IF w.bucket = "500" THEN "ClientError"
    ELSE w.bucket

\* upload_file_to_s3: the local file test, then s3_client.upload_file
upload_file_to_s3(w) ==
    IF ~w.file THEN [put |-> FALSE, exc |-> "FileNotFoundError"]
    ELSE IF w.upload = "ok" THEN [put |-> TRUE, exc |-> "none"]
    ELSE [put |-> TRUE, exc |-> w.upload]

\* verify_upload: head_object; a ClientError is logged and raised again
verify_upload(w) == IF w.verify = "ok" THEN "none" ELSE w.verify

\* main's except clause for an exception, and the status it exits with
Handler(exc) ==
    IF exc = "ValueError" THEN [clause |-> "ValueError", status |-> 1]
    ELSE IF exc = "FileNotFoundError"
    THEN [clause |-> "FileNotFoundError", status |-> 1]
    ELSE IF exc \in {"NoCredentialsError", "PartialCredentialsError"}
    THEN [clause |-> "CredentialsError", status |-> 1]
    ELSE IF exc = "EndpointConnectionError"
    THEN [clause |-> "EndpointConnectionError", status |-> 1]
    ELSE IF exc = "ClientError" THEN [clause |-> "ClientError", status |-> 1]
    ELSE [clause |-> "Exception", status |-> 1]

\* a step of main: on an exception main's handler exits, else main goes on
Step(name, exc, next) ==
    /\ calls' = Append(calls, name)
    /\ IF exc = "none"
       THEN upc' = next /\ UNCHANGED <<exit_status, handler>>
       ELSE /\ upc' = "exit"
            /\ exit_status' = Handler(exc).status
            /\ handler' = Handler(exc).clause
    /\ UNCHANGED <<ucfg, world>>
    /\ UNCHANGED <<genVars, runVars>>

ValidateCredentials ==
    /\ upc = "validate"
    /\ Step("validate_credentials", validate_credentials(ucfg), "create")

CreateS3Client ==
    /\ upc = "create"
    /\ Step("create_s3_client", create_s3_client(world), "bucket")

VerifyBucketExists ==
    /\ upc = "bucket"
    /\ Step("verify_bucket_exists", verify_bucket_exists(world), "upload")

UploadFileToS3 ==
    /\ upc = "upload"
    /\ LET r == upload_file_to_s3(world)
       IN  /\ calls' = Append(calls, "upload_file_to_s3")
                         \o (IF r.put THEN <<"s3.upload_file">> ELSE <<>>)
           /\ IF r.exc = "none"
              THEN upc' = "verify" /\ UNCHANGED <<exit_status, handler>>
              ELSE /\ upc' = "exit"
                   /\ exit_status' = Handler(r.exc).status
                   /\ handler' = Handler(r.exc).clause
    /\ UNCHANGED <<ucfg, world>>
    /\ UNCHANGED <<genVars, runVars>>

VerifyUpload ==
    /\ upc = "verify"
    /\ Step("verify_upload", verify_upload(world), "complete")

\* the completion messages; main returns and the process exits with 0
UploadComplete ==
    /\ upc = "complete"
    /\ upc' = "exit"
    /\ exit_status' = 0
    /\ UNCHANGED <<ucfg, world, calls, handler>>
    /\ UNCHANGED <<genVars, runVars>>

Worlds ==
    [client : {"ok", "NoCredentialsError", "PartialCredentialsError", "Exception"},
     bucket : {"ok", "404", "403", "500", "EndpointConnectionError"},
     file : BOOLEAN,
     upload : {"ok", "ClientError", "Exception"},
     verify : {"ok", "ClientError", "EndpointConnectionError"}]

\* generate_data.py is not running
GenIdle ==
    /\ pc = "idle"
    /\ cfg = [SAMPLE_TRACKS |-> 2, NUM_DAYS |-> 0, START_DATE |-> NoDate,
              REGIONS |-> <<>>, layers |-> Layers(10, 20, 1, 3, 3, 20, 30, 2, 10)]
    /\ seed = 0
    /\ rng = 0
    /\ file_read = NoFile
    /\ tracks_df = NoFrame
    /\ start = NoDate
    /\ current_date = NoDate
    /\ day_offset = 0
    /\ ti = 0
    /\ ri = 0
    /\ streaming_records = <<>>
    /\ drawLog = <<>>
    /\ streaming_df = NoFrame
    /\ output_file = Absent
    /\ error = NoError
    /\ stages = <<>>

UploadInit ==
    /\ GenIdle
    /\ run = 1
    /\ first_run = NoRun
    /\ upc = "validate"
    /\ ucfg \in [key : BOOLEAN, secret : BOOLEAN, bucket : BOOLEAN]
    /\ world \in Worlds
    /\ calls = <<>>
    /\ exit_status = 0 - 1
    /\ handler = "none"

UploadNext ==
    \/ ValidateCredentials
    \/ CreateS3Client
    \/ VerifyBucketExists
    \/ UploadFileToS3
    \/ VerifyUpload
    \/ UploadComplete

SpecUpload == UploadInit /\ [][UploadNext]_vars

(* ============================== claims ================================= *)

\* the (day, track, region) triple that position k of the output belongs to
TripleAt(k) ==
    LET T == Len(tracks_df.rows)
        R == Len(cfg.REGIONS)
    IN  [day |-> (k - 1) \div (T * R),
         track |-> tracks_df.rows[(((k - 1) \div R) % T) + 1],
         region |-> cfg.REGIONS[((k - 1) % R) + 1]]

InOrder(records) ==
    \A k \in 1..Len(records) :
        /\ records[k].date = AddDays(cfg.START_DATE, TripleAt(k).day)
        /\ records[k].track_id = TripleAt(k).track.track_id
        /\ records[k].track_name = TripleAt(k).track.track_name
        /\ records[k].artists = TripleAt(k).track.artists
        /\ records[k].popularity = TripleAt(k).track.popularity
        /\ records[k].region = TripleAt(k).region

Returned == GenReturned

\* C1: generate_streaming_data returns exactly one record per (day, track,
\* region) triple, day-major, then track, then region, so for num_days >= 0
\* the output holds num_days * |tracks| * |regions| records; and a record,
\* once appended, is never changed or removed by a later iteration.
C1_OneRecordPerTriple ==
    /\ [](/\ InOrder(streaming_records)
          /\ Returned =>
               /\ streaming_df.rows = streaming_records
               /\ cfg.NUM_DAYS >= 0 =>
                    Len(streaming_df.rows)
                      = cfg.NUM_DAYS * Len(tracks_df.rows) * Len(cfg.REGIONS))
    /\ [][/\ Len(streaming_records') >= Len(streaming_records)
          /\ SubSeq(streaming_records', 1, Len(streaming_records))
               = streaming_records]_vars

\* a full run over two days, two tracks and two regions returned its 8 records
C1_Witness ==
    /\ pc = "done"
    /\ cfg.NUM_DAYS = 2 /\ Len(tracks_df.rows) = 2 /\ Len(cfg.REGIONS) = 2
    /\ Len(streaming_df.rows) = 8
    /\ streaming_df.rows[8].region = "UK"
    /\ streaming_df.rows[7].region = "US"

\* the latest triple ran to its end: its record is the last one appended
TripleDone ==
    /\ streaming_records # <<>>
    /\ ~(pc = "failed" /\ error.type = "ZeroDivisionError")

LastRecord == streaming_records[Len(streaming_records)]

\* C2: in every record generate_streaming_data produces, streams and
\* playlist_adds are non-negative integers, whatever the draws and whichever
\* layers applied (popularity in 0..100, non-negative configured factors).
C2_NonNegative ==
    /\ \A k \in 1..Len(streaming_records) :
         /\ streaming_records[k].streams \in Nat
         /\ streaming_records[k].playlist_adds \in Nat
    /\ \A k \in 1..Len(streaming_df.rows) :
         /\ streaming_df.rows[k].streams \in Nat
         /\ streaming_df.rows[k].playlist_adds \in Nat

\* a triple on Saturday 2024-08-31 with the weekend, viral and summer layers
\* all applied (more than 93 * 2.0 * 1.3 * 1.2 streams) gave positive
\* counts, and a popularity-0 track gave zero counts
C2_Witness ==
    /\ TripleDone
    /\ \E k \in 1..Len(streaming_records) :
         /\ streaming_records[k].date = <<2024, 8, 31>>
         /\ streaming_records[k].streams > 300
         /\ streaming_records[k].playlist_adds > 0
    /\ \E k \in 1..Len(streaming_records) :
         /\ streaming_records[k].popularity = 0
         /\ streaming_records[k].streams = 0
         /\ streaming_records[k].playlist_adds = 0

\* the kinds of the draws of a log, in order
Kinds(log) == [i \in 1..Len(log) |-> log[i].kind]

\* the result of the draw of a kind in a log (that kind occurs in it)
DrawOf(log, kind) == log[CHOOSE i \in 1..Len(log) : log[i].kind = kind].k

HasDraw(log, kind) == \E i \in 1..Len(log) : log[i].kind = kind

RECURSIVE Outputs(_, _)
\* the next n results of the generator in state g
Outputs(g, n) ==
    IF n = 0 THEN <<>> ELSE <<Rand(g).out>> \o Outputs(Rand(g).state, n - 1)

RECURSIVE StateAfter(_, _)
StateAfter(g, n) == IF n = 0 THEN g ELSE StateAfter(Rand(g).state, n - 1)

\* the sequence of draws the claim gives for a triple on `date` whose
\* viral-probability draw was k
ClaimedKinds(date, spike) ==
    <<"base">>
    \o (IF Weekday(date) \in {4, 5} THEN <<"weekend">> ELSE <<>>)
    \o <<"viral_probability">>
    \o (IF spike THEN <<"viral_multiplier">> ELSE <<>>)
    \o <<"variance">>

\* C4: within a triple the random source is consumed in the fixed sequence
\* base draw, weekend draw iff the day is a weekend day, viral-probability
\* draw, viral-multiplier draw iff that draw fell below the probability,
\* variance draw last; the summer layer draws nothing; so a triple takes
\* between 3 and 5 draws, and they are consecutive results of the generator.
C4_DrawSequence ==
    /\ [](TripleDone =>
            /\ HasDraw(drawLog, "viral_probability")
            /\ Kinds(drawLog)
                 = ClaimedKinds(LastRecord.date,
                      DrawOf(drawLog, "viral_probability") * 10
                        < cfg.layers.VIRAL_SPIKE_PROBABILITY * Grid)
            /\ Len(drawLog) \in 3..5)
    /\ [][Len(streaming_records') > Len(streaming_records) =>
            /\ [i \in 1..Len(drawLog') |-> drawLog'[i].k]
                 = Outputs(rng, Len(drawLog'))
            /\ rng' = StateAfter(rng, Len(drawLog'))]_vars

\* triples of 3, 4 (weekend only), 4 (spike only) and 5 draws were all taken
C4_Witness ==
    /\ TripleDone
    /\ Kinds(drawLog) = <<"base", "weekend", "viral_probability",
                          "viral_multiplier", "variance">>
    /\ LastRecord.date = <<2024, 8, 31>>
    /\ Len(streaming_records) >= 2

\* a fraction for 1
One == <<1, 1>>

\* C5: streams is the truncation of base * W * V * S: base = popularity * the
\* base draw, W = 1 + the weekend draw on weekday 4 or 5 (Monday = 0) and 1
\* otherwise, V = the viral multiplier draw on a spike and 1 otherwise,
\* S = 1 + summer_boost in June, July, August and 1 otherwise.  So with no
\* layer applying streams = floor(base), and on a summer day with weekend
\* and viral factors equal to 1 streams = floor(base * (1 + summer_boost)).
C5_LayeredProduct ==
    TripleDone =>
      LET L == cfg.layers
          r == LastRecord
          base == <<r.popularity
                      * Uniform(L.BASE_STREAM_MULTIPLIER_MIN,
                                L.BASE_STREAM_MULTIPLIER_MAX,
                                DrawOf(drawLog, "base")), Den>>
          W == IF Weekday(r.date) \in {4, 5}
               THEN <<Den + Uniform(L.WEEKEND_BOOST_MIN, L.WEEKEND_BOOST_MAX,
                                    DrawOf(drawLog, "weekend")), Den>>
               ELSE One
          V == IF HasDraw(drawLog, "viral_multiplier")
               THEN <<Uniform(L.VIRAL_SPIKE_MULTIPLIER_MIN,
                              L.VIRAL_SPIKE_MULTIPLIER_MAX,
                              DrawOf(drawLog, "viral_multiplier")), Den>>
               ELSE One
          S == IF r.date[2] \in {6, 7, 8} THEN <<10 + L.SUMMER_BOOST, 10>>
               ELSE One
      IN  /\ r.streams = Trunc(Mul(Mul(Mul(base, W), V), S))
          /\ (W = One /\ V = One /\ S = One) => r.streams = Trunc(base)
          /\ (W[1] = W[2] /\ V[1] = V[2] /\ S # One) =>
               r.streams = Trunc(Mul(base, <<10 + L.SUMMER_BOOST, 10>>))

\* Friday 2024-05-31 (not summer), popularity 50, base draw 1.5 and weekend
\* draw 0.2 with no spike: int(50 * 1.5 * 1.2) = 90 streams
C5_Witness ==
    /\ TripleDone
    /\ LastRecord.date = <<2024, 5, 31>>
    /\ LastRecord.popularity = 50
    /\ Kinds(drawLog) = <<"base", "weekend", "viral_probability", "variance">>
    /\ cfg.layers.BASE_STREAM_MULTIPLIER_MIN = 15
    /\ cfg.layers.BASE_STREAM_MULTIPLIER_MAX = 15
    /\ LastRecord.streams = 90

\* a configuration that breaks SimulationConfig's invariants
InvalidConfig ==
    \/ cfg.NUM_DAYS < 1
    \/ cfg.REGIONS = <<>>
    \/ ~RangesValid(cfg)

\* C6: an invalid configuration (horizon < 1, no regions, a range with
\* min > max) is rejected before the first triple: under it the simulator
\* takes no draw and emits no record, and the run never completes.
C6_InvalidConfigRejected ==
    InvalidConfig =>
      /\ streaming_records = <<>>
      /\ drawLog = <<>>
      /\ pc # "done"

\* C7: a readable catalog that lacks required columns fails with one error
\* naming exactly the required columns absent from the file, and no tracks
\* are returned; a catalog with every required column is returned whole, in
\* source order, without error.
C7_MissingColumnsReported ==
    (file_read.exists /\ file_read.parses /\ stages # <<>>) =>
      IF RequiredSet \subseteq file_read.columns
      THEN /\ ~(pc = "failed" /\ error.stage = "load")
           /\ pc = "sample" =>
                (tracks_df.rows = file_read.rows /\ error = NoError)
      ELSE /\ pc = "failed"
           /\ error.type = "ValueError"
           /\ error.stage = "load"
           /\ {error.missing[i] : i \in 1..Len(error.missing)}
                = RequiredSet \ file_read.columns
           /\ Len(error.missing) = Cardinality(RequiredSet \ file_read.columns)
           /\ tracks_df = NoFrame

\* a catalog without popularity and artists: the error names both
C7_Witness ==
    /\ pc = "failed"
    /\ file_read.columns = {"track_id", "track_name"}
    /\ error.type = "ValueError"
    /\ error.missing = <<"artists", "popularity">>
    /\ tracks_df = NoFrame

AllStages == <<"load", "simulate", "save">>

\* C8: the stages run in the order Loader, Simulator, Sink and the run fails
\* fast: the first error ends the run and is what main raises, no stage runs
\* after a failure, the simulator never runs after a loader error and the
\* output file is never written after a loader or simulator error.
C8_FailFast ==
    /\ [](/\ stages = SubSeq(AllStages, 1, Len(stages))
          /\ pc = "failed" =>
               /\ error.type # "none"
               /\ error.stage = stages[Len(stages)]
               /\ error.stage \in {"load", "simulate"} => ~output_file.written
          /\ pc # "failed" => error = NoError
          /\ pc = "done" =>
               /\ stages = AllStages
               /\ output_file = [written |-> TRUE, rows |-> streaming_df.rows])
    /\ [][pc # "failed" /\ pc # "done"]_vars

\* a simulator error (a zero divisor, met at the first triple) ended the run
\* after the loader and before the sink, with nothing written
C8_Witness ==
    /\ pc = "failed"
    /\ error.type = "ZeroDivisionError"
    /\ stages = <<"load", "simulate">>
    /\ ~output_file.written

\* C9: with no regions or no tracks generate_streaming_data returns an empty
\* output without error, and save_streaming_data, given that output and a
\* writable destination, completes without raising.
C9_EmptyOutputNoError ==
    (Returned /\ (cfg.REGIONS = <<>> \/ tracks_df.rows = <<>>)) =>
      /\ streaming_df.rows = <<>>
      /\ ~(pc = "failed" /\ error.type = "KeyError")


UploadOrder ==
    <<"validate_credentials", "create_s3_client", "verify_bucket_exists",
      "upload_file_to_s3", "s3.upload_file", "verify_upload">>

Attempted(name) == \E i \in 1..Len(calls) : calls[i] = name

\* whether a step fails in the world the upload runs in
StepFails(name) ==
    IF name = "validate_credentials"
    THEN ~(ucfg.key /\ ucfg.secret /\ ucfg.bucket)
    ELSE IF name = "create_s3_client" THEN world.client # "ok"
    ELSE IF name = "verify_bucket_exists" THEN world.bucket # "ok"
    ELSE IF name = "upload_file_to_s3" THEN ~world.file \/ world.upload # "ok"
    ELSE IF name = "s3.upload_file" THEN world.upload # "ok"
    ELSE world.verify # "ok"

\* C10: the upload run attempts validate_credentials, create_s3_client,
\* verify_bucket_exists, upload_file_to_s3, verify_upload in that order, each
\* at most once; the file is uploaded only after the credential and bucket
\* checks succeeded and the local file exists, verify_upload is attempted
\* only after the upload succeeded, and a failing step ends the run at once
\* with exit status 1, with no retry and no later step.
C10_UploadOrder ==
    /\ [](/\ calls = SubSeq(UploadOrder, 1, Len(calls))
          /\ Attempted("s3.upload_file") =>
               /\ ucfg.key /\ ucfg.secret /\ ucfg.bucket
               /\ world.client = "ok"
               /\ world.bucket = "ok"
               /\ world.file
          /\ Attempted("verify_upload") => world.upload = "ok"
          /\ \A i \in 1..Len(calls) :
               StepFails(calls[i]) =>
                 /\ \/ i = Len(calls)
                    \/ (calls[i] = "upload_file_to_s3" /\ i = Len(calls) - 1)
                 /\ upc = "exit"
                 /\ exit_status = 1
          /\ exit_status = 0 =>
               (calls = UploadOrder /\ \A i \in 1..Len(calls) : ~StepFails(calls[i]))
          /\ upc = "exit" <=> exit_status \in {0, 1})
    /\ [][upc # "exit"]_vars

\* the bucket check failed with a 404: the run ended there with status 1
C10_Witness ==
    /\ upc = "exit"
    /\ exit_status = 1
    /\ world.bucket = "404"
    /\ calls = <<"validate_credentials", "create_s3_client", "verify_bucket_exists">>
    /\ handler = "ValueError"

====
